---- MODULE Spec2Model ----
(***************************************************************************)
(* BLE IPSP Router (BLE_IPSP_Router.cydsn/main.c): the application's       *)
(* event callback (AppCallback), its console command loop (main) and the   *)
(* advertisement filter (CheckAdvPacketForServiceUuid), together with the  *)
(* part of the BLE stack the application observes (CyBle_GetState, the     *)
(* L2CAP credit ledgers), which is modelled from the specification.        *)
(***************************************************************************)
EXTENDS Integers, Sequences, FiniteSets, TLC

(***************************************************************************)
(* Bounds of the model.                                                    *)
(***************************************************************************)
\* bytes of the advertisement report buffer the filter is checked on
BufLen == 5
\* capacity of the peer registry (CYBLE_MAX_ADV_DEVICES, scaled down)
MaxAdvDevices == 2
\* 16-bit words of one payload (L2CAP_MAX_LEN / 2, scaled down)
MaxWords == 1
\* '1' commands (console or armed) in one run
MaxWrites == 3
\* credits of one grant (LE_DATA_CREDITS_IPSP, scaled down)
MaxCredits == 2
\* '1' commands looked at on each side of the wrap of the 16-bit counter
GenSpan == 30
\* 'c' commands and connect attempts that are counted exactly
MaxCounted == 2

(***************************************************************************)
(* Program constants.                                                      *)
(***************************************************************************)
CYBLE_GAP_ADV_INCOMPL_16UUID == 2
CYBLE_GAP_ADV_COMPL_16UUID == 3
\* 0x1820
CYBLE_UUID_INTERNET_PROTOCOL_SUPPORT_SERVICE == 6176
CYBLE_MAX_ADV_DEVICES == MaxAdvDevices
L2CAP_MAX_LEN == 2 * MaxWords
LE_DATA_CREDITS_IPSP == MaxCredits
LE_WATER_MARK_IPSP == MaxCredits - 1
Pow16 == 65536

(***************************************************************************)
(* CheckAdvPacketForServiceUuid.  The report is the buffer `data` (its     *)
(* bytes at and after dataLen are stale but readable) and dataLen.  A read *)
(* at or after Len(data) leaves the buffer: its value is not determined,   *)
(* so the function yields the SET of values the call can return.           *)
(***************************************************************************)
\* eventParam->data[k], k counted from 0
Byte(data, k) == data[k + 1]

InBuf(data, k) == k < Len(data)

\* CyBle_Get16ByPtr: little-endian 16-bit read
CyBle_Get16ByPtr(data, k) == Byte(data, k) + 256 * Byte(data, k + 1)

\* i < (eventParam->data[advIndex] - 1u): the right side is a uint32, so a
\* length byte of 0 makes it 0xFFFFFFFF, which every even i is below
FieldLoopTest(data, advIndex, i) ==
    IF Byte(data, advIndex) = 0 THEN TRUE ELSE i < Byte(data, advIndex) - 1

\* the for loop of lines 74-80 from i on: "yes" found, "no" not found,
\* "ub" when it reads outside the buffer before finding
RECURSIVE UuidLoop(_, _, _, _)
UuidLoop(data, advIndex, uuid, i) ==
    IF ~FieldLoopTest(data, advIndex, i) THEN "no"
    ELSE IF ~InBuf(data, advIndex + 3 + i) THEN "ub"
    ELSE IF CyBle_Get16ByPtr(data, advIndex + 2 + i) = uuid THEN "yes"
    ELSE UuidLoop(data, advIndex, uuid, i + 2)

\* one pass of the do-while body at advIndex
FieldScan(data, advIndex, uuid) ==
    IF ~InBuf(data, advIndex + 1) THEN "ub"
    ELSE IF Byte(data, advIndex + 1) = CYBLE_GAP_ADV_INCOMPL_16UUID
            \/ Byte(data, advIndex + 1) = CYBLE_GAP_ADV_COMPL_16UUID
         THEN UuidLoop(data, advIndex, uuid, 0)
         ELSE "no"

\* the do-while of lines 67-83 from advIndex on; the body runs before the
\* test, so the first field is read even when dataLen = 0
RECURSIVE AdvLoop(_, _, _, _)
AdvLoop(data, dataLen, uuid, advIndex) ==
    LET found == FieldScan(data, advIndex, uuid)
        next == advIndex + Byte(data, advIndex) + 1
        rest == IF next < dataLen
                THEN AdvLoop(data, dataLen, uuid, next)
                ELSE {0}
    IN  CASE found = "yes" -> {1}
          [] found = "no" -> rest
          [] OTHER -> {1} \cup rest

CheckAdvPacketForServiceUuid(eventParam, uuid) ==
    AdvLoop(eventParam.data, eventParam.dataLen, uuid, 0)

(***************************************************************************)
(* State.                                                                  *)
(***************************************************************************)
VARIABLES
    \* application (main.c globals, and the static counter of main)
    l2capConnected, l2capParameters, peerAddr, advDevices, deviceN, state,
    ipv6LoopbackBuffer, counter, custom_command, connIntv,
    \* BLE stack, as the application observes it
    cyBle_state, cyBle_busyStatus, scanStartPending, scanStopReq,
    gapConnPending, chan, chanCid, chanMps, send_credits, rxCredits,
    rxLowPending, inflight, power,
    \* the last report handed to the filter and what the filter returned
    advReport, servicePresent,
    \* the result and length fields of the last delivered payload
    rxDataParam,
    \* the last event or step, its parameter, and the calls it made
    lastEvt, evtParam, calls,
    \* history: '1' commands run, 'c' seen, low-mark crossings, grants,
    \* 'c' commands and connect attempts (both stop counting at MaxCounted,
    \* and are counted in the runs that start with counted = TRUE)
    nWrites, cSeen, nCross, nGrant, nC, nConnects, counted,
    \* Wireless Power Receiver: pruControl (wpru.c), the tick counter of
    \* the WDT interrupt, where main is in its loop, whether the stack has
    \* an advertising-started event to raise, and whether a tick was raised
    \* that no call of MeasureWirelessParam has followed yet
    pruControl, mainTimer, mainPc, advStartPending, tickOwed

chanApp == <<l2capConnected, l2capParameters>>
registry == <<peerAddr, advDevices>>
sel == <<deviceN, state>>
xfer == <<ipv6LoopbackBuffer, counter, custom_command>>
scanSt == <<scanStartPending, scanStopReq>>
ledger == <<chan, chanCid, chanMps, send_credits, rxCredits, rxLowPending,
            inflight>>
advVars == <<advReport, servicePresent, rxDataParam>>
hist == <<nWrites, cSeen, nCross, nGrant, nC, nConnects, counted>>
wprVars == <<pruControl, mainTimer, mainPc, advStartPending, tickOwed>>
vars == <<chanApp, registry, sel, xfer, connIntv, cyBle_state,
          cyBle_busyStatus, scanSt, gapConnPending, ledger, power, advVars,
          lastEvt, evtParam, calls, hist, wprVars>>

(***************************************************************************)
(* Inputs.                                                                 *)
(***************************************************************************)
\* bytes an advertisement is built from: lengths 0, 2, 3, 4, the two
\* UUID-list types 2 and 3, and the bytes 0x18, 0x20 of the target UUID
ByteVals == {0, 2, 3, 4, 24, 32}

Buffers == [1..BufLen -> ByteVals]

\* device addresses (a 6-byte address is one value; memcmp of two addresses
\* is 0 exactly when the values are equal)
Addrs == 1..(MaxAdvDevices + 1)

AddrTypes == {0, 1}

\* advertisements seen while scanning: one carrying the service UUID, one
\* carrying another UUID, one whose UUID bytes straddle the end of the field
AdvSamples == { <<3, 3, 32, 24>>, <<3, 3, 24, 32>>, <<2, 3, 32, 24>> }

\* console characters ("" is no character)
Chars == {"c", "v", "d", "s", "z", "1", "h"}

Digits == {"0", "1", "9", "x"}

DigitVal(ch) == CASE ch = "0" -> 0 [] ch = "1" -> 1 [] ch = "9" -> 9
                  [] OTHER -> -1

\* connIntv values of a connection event, disconnect reasons, channel ids,
\* response codes and maximum PDU sizes a peer answers with
ConnIntvs == {6}
Reasons == {8, 19}
Cids == {64, 65}
Responses == {0, 4}
\* the peer that answers with channel id 64 takes fragments of one byte,
\* the other takes a whole payload in one fragment
PeerMps(lCid) == IF lCid = 64 THEN 1 ELSE L2CAP_MAX_LEN + 1

CYBLE_L2CAP_PSM_LE_PSM_IPSP == 35
CYBLE_L2CAP_MTU == 2 * MaxWords
CYBLE_L2CAP_MPS == 2 * MaxWords

\* a call the application makes: its arguments, its result, and the state
\* CyBle_GetState returns when it is made
Call(api, arg, res, st) == [api |-> api, arg |-> arg, res |-> res, st |-> st]

(***************************************************************************)
(* The stack's side of the API (modelled from the specification).          *)
(***************************************************************************)
\* CyBle_GapcStartScan: accepted when no scan or link is active
GapcStartScan(st) ==
    IF st = "DISCONNECTED"
    THEN [res |-> "OK", state |-> "SCANNING", started |-> TRUE]
    ELSE [res |-> "ERR", state |-> st, started |-> FALSE]

\* CyBle_GapcConnectDevice: accepted when no scan or link is active
GapcConnectDevice(st) ==
    IF st = "DISCONNECTED"
    THEN [res |-> "OK", state |-> "CONNECTING"]
    ELSE [res |-> "ERR", state |-> st]

\* credits a write of n bytes takes with fragments of m bytes: the bug of
\* counting whole fragments only
CreditsForFloor(n, m) == n \div m

\* credits a write of n bytes takes with fragments of m bytes
CreditsFor(n, m) == (n + m - 1) \div m

\* CyBle_L2capChannelDataWrite: refused as a whole unless the channel is
\* open and the peer's credits cover every fragment
L2capChannelDataWriteBad(open, lCid, n, m, c) ==
    IF open /\ lCid = chanCid
    THEN [res |-> "OK", credits |-> c - CreditsFor(n, m), sent |-> TRUE]
    ELSE [res |-> "ERR", credits |-> c, sent |-> FALSE]

L2capChannelDataWrite(open, lCid, n, m, c) ==
    IF open /\ lCid = chanCid /\ CreditsFor(n, m) <= c
    THEN [res |-> "OK", credits |-> c - CreditsFor(n, m), sent |-> TRUE]
    ELSE [res |-> "ERR", credits |-> c, sent |-> FALSE]

(***************************************************************************)
(* Initial state: main() has started the component (CyBle_Start) and no    *)
(* event has been dispatched yet.                                          *)
(***************************************************************************)
ZeroParams == [lCid |-> 0, response |-> 0, mtu |-> 0, mps |-> 0, credit |-> 0]

ZeroReport == [peerBdAddr |-> 0, peerAddrType |-> 0,
               data |-> [i \in 1..BufLen |-> 0], dataLen |-> 0]

InitApp ==
    /\ l2capConnected = FALSE
    /\ l2capParameters = ZeroParams
    /\ peerAddr = [i \in 0..(CYBLE_MAX_ADV_DEVICES - 1) |->
                      [bdAddr |-> 0, type |-> 0]]
    /\ advDevices = 0
    /\ deviceN = 0
    /\ state = "STATE_INIT"
    /\ ipv6LoopbackBuffer = [i \in 1..MaxWords |-> 0]
    /\ counter = 0
    /\ custom_command = ""
    /\ connIntv = 0

InitStack ==
    /\ cyBle_state = "INITIALIZING"
    /\ cyBle_busyStatus = 0
    /\ scanStartPending = FALSE
    /\ scanStopReq = FALSE
    /\ gapConnPending = FALSE
    /\ chan = "closed"
    /\ chanCid = 0
    /\ chanMps = 0
    /\ send_credits = 0
    /\ rxCredits = 0
    /\ rxLowPending = FALSE
    /\ inflight = <<>>
    /\ power = "run"

ZeroRxParam == [result |-> 0, rxDataLength |-> 0]

InitObs ==
    /\ servicePresent = 0
    /\ rxDataParam = ZeroRxParam
    /\ lastEvt = "none"
    /\ evtParam = 0
    /\ calls = <<>>
    /\ nWrites = 0
    /\ cSeen = FALSE
    /\ nCross = 0
    /\ nGrant = 0
    /\ nC = 0
    /\ nConnects = 0

\* the receiver's main() has started its component and the WDT (lines
\* 445-472); pruControl is as wpru.c defines it, with no bit set
InitWprApp ==
    /\ pruControl = [enables |-> 0]
    /\ mainTimer = 0
    /\ mainPc = "CyBle_ProcessEvents"
    /\ advStartPending = FALSE
    /\ tickOwed = FALSE

Init ==
    InitApp /\ InitStack /\ InitObs /\ advReport = ZeroReport
    /\ counted = FALSE /\ InitWprApp

\* the same start, for the runs whose 'c' commands and connect attempts
\* are counted
InitCounted ==
    InitApp /\ InitStack /\ InitObs /\ advReport = ZeroReport
    /\ counted = TRUE /\ InitWprApp

\* the stack dispatches events only while the device runs, and it raises
\* the low-mark indication in the same dispatch as the data that caused it
Dispatchable == power = "run" /\ ~rxLowPending

\* the report is the parameter of one event: a step that is not the
\* dispatch of a SCAN_PROGRESS_RESULT leaves none behind
NoReport ==
    /\ advReport' = ZeroReport
    /\ servicePresent' = 0
    /\ rxDataParam' = ZeroRxParam

(***************************************************************************)
(* AppCallback: general and GAP events.                                    *)
(***************************************************************************)
\* CYBLE_EVT_STACK_ON: register the PSM with the low mark, start scanning
EvtStackOn ==
    /\ power = "run"
    /\ cyBle_state = "INITIALIZING"
    /\ LET r == GapcStartScan("DISCONNECTED")
       IN  /\ cyBle_state' = r.state
           /\ scanStartPending' = r.started
           /\ calls' = << Call("CyBle_L2capCbfcRegisterPsm",
                               <<CYBLE_L2CAP_PSM_LE_PSM_IPSP,
                                 LE_WATER_MARK_IPSP>>, "OK", "DISCONNECTED"),
                          Call("CyBle_GapcStartScan", <<>>, r.res,
                               "DISCONNECTED") >>
    /\ lastEvt' = "CYBLE_EVT_STACK_ON"
    /\ evtParam' = 0
    /\ NoReport
    /\ UNCHANGED <<chanApp, registry, sel, xfer, connIntv, cyBle_busyStatus,
                   scanStopReq, gapConnPending, ledger, power, hist, wprVars>>

\* the registry after a report that passed the filter (lines 186-205): the
\* bug of comparing the whole 7-byte entry, address and type
RegistryAfterReportWholeEntry(reg, n, rep) ==
    LET newDevice == ~\E i \in 0..(n - 1) :
                        /\ reg[i].bdAddr = rep.peerBdAddr
                        /\ reg[i].type = rep.peerAddrType
    IN  IF newDevice /\ n < CYBLE_MAX_ADV_DEVICES
        THEN [peerAddr |-> [reg EXCEPT ![n] = [bdAddr |-> rep.peerBdAddr,
                                               type |-> rep.peerAddrType]],
              advDevices |-> n + 1]
        ELSE [peerAddr |-> reg, advDevices |-> n]

\* the registry after a report that passed the filter (lines 186-205): the
\* bug of evicting the oldest entry when the registry is full
RegistryAfterReportEvict(reg, n, rep) ==
    LET newDevice == ~\E i \in 0..(n - 1) : reg[i].bdAddr = rep.peerBdAddr
        entry == [bdAddr |-> rep.peerBdAddr, type |-> rep.peerAddrType]
    IN  IF ~newDevice THEN [peerAddr |-> reg, advDevices |-> n]
        ELSE IF n < CYBLE_MAX_ADV_DEVICES
        THEN [peerAddr |-> [reg EXCEPT ![n] = entry], advDevices |-> n + 1]
        ELSE [peerAddr |-> [reg EXCEPT ![0] = entry], advDevices |-> n]

\* the registry after a report that passed the filter (lines 186-205)
RegistryAfterReport(reg, n, rep) ==
    LET newDevice == ~\E i \in 0..(n - 1) : reg[i].bdAddr = rep.peerBdAddr
    IN  IF newDevice /\ n < CYBLE_MAX_ADV_DEVICES
        THEN [peerAddr |-> [reg EXCEPT ![n] = [bdAddr |-> rep.peerBdAddr,
                                               type |-> rep.peerAddrType]],
              advDevices |-> n + 1]
        ELSE [peerAddr |-> reg, advDevices |-> n]

\* reports the stack delivers while scanning
ScanReports ==
    { [peerBdAddr |-> a, peerAddrType |-> t, data |-> d,
       dataLen |-> IF d[1] = 2 THEN 3 ELSE 4] :
      a \in Addrs, t \in AddrTypes, d \in AdvSamples }

\* CYBLE_EVT_GAPC_SCAN_PROGRESS_RESULT
EvtScanProgressResult(rep) ==
    /\ Dispatchable
    /\ cyBle_state = "SCANNING"
    /\ \E present \in CheckAdvPacketForServiceUuid(rep,
                         CYBLE_UUID_INTERNET_PROTOCOL_SUPPORT_SERVICE) :
          /\ servicePresent' = present
          /\ LET r == IF present # 0
                      THEN RegistryAfterReport(peerAddr, advDevices, rep)
                      ELSE [peerAddr |-> peerAddr, advDevices |-> advDevices]
             IN  /\ peerAddr' = r.peerAddr
                 /\ advDevices' = r.advDevices
    /\ advReport' = rep
    /\ rxDataParam' = ZeroRxParam
    /\ lastEvt' = "CYBLE_EVT_GAPC_SCAN_PROGRESS_RESULT"
    /\ evtParam' = 0
    /\ calls' = <<>>
    /\ UNCHANGED <<chanApp, sel, xfer, connIntv, cyBle_state,
                   cyBle_busyStatus, scanSt, gapConnPending, ledger, power,
                   hist, wprVars>>

\* what the SCAN_START_STOP handler does (lines 223-250), given the state
\* CyBle_GetState returns: the bug of not testing that state
ScanStartStopActionNoStateTest(st, appState) ==
    IF appState = "STATE_CONNECTING" THEN "connect" ELSE "hibernate"

ScanStartStopAction(st, appState) ==
    IF st = "DISCONNECTED"
    THEN IF appState = "STATE_CONNECTING" THEN "connect" ELSE "hibernate"
    ELSE "none"

\* CYBLE_EVT_GAPC_SCAN_START_STOP: raised when a scan has started (the stack
\* is scanning) and when it has stopped, on its timeout or on a stop
\* request (the stack is disconnected)
EvtScanStartStop(stop) ==
    /\ Dispatchable
    /\ cyBle_state = "SCANNING"
    /\ scanStartPending = ~stop
    /\ LET st == IF stop THEN "DISCONNECTED" ELSE "SCANNING"
           act == ScanStartStopAction(st, state)
           r == GapcConnectDevice(st)
       IN  /\ cyBle_state' = IF act = "connect" THEN r.state ELSE st
           /\ calls' = CASE act = "connect" ->
                              <<Call("CyBle_GapcConnectDevice", <<deviceN>>,
                                     r.res, st)>>
                         [] act = "hibernate" ->
                              <<Call("CySysPmHibernate", <<>>, "void", st)>>
                         [] OTHER -> <<>>
           /\ power' = IF act = "hibernate" THEN "hibernate" ELSE power
           /\ nConnects' = IF counted /\ act = "connect"
                              /\ nConnects < MaxCounted
                           THEN nConnects + 1 ELSE nConnects
    /\ scanStartPending' = FALSE
    /\ scanStopReq' = IF stop THEN FALSE ELSE scanStopReq
    /\ lastEvt' = "CYBLE_EVT_GAPC_SCAN_START_STOP"
    /\ evtParam' = IF stop THEN 1 ELSE 0
    /\ NoReport
    /\ UNCHANGED <<chanApp, registry, sel, xfer, connIntv, cyBle_busyStatus,
                   gapConnPending, ledger, nWrites, cSeen, nCross, nGrant, nC,
                   counted, wprVars>>

\* the calls of the GATT_CONNECT_IND handler (lines 313-331): the bug of
\* leaving the channel to a console command
GattConnectIndRequestNone(st) == <<>>

\* the calls of the GATT_CONNECT_IND handler (lines 313-331): the request
\* carries the local MTU, MPS and initial credits; its result is filled in
\* by the stack
GattConnectIndRequest(st) ==
    << Call("CyBle_L2capCbfcConnectReq",
            <<CYBLE_L2CAP_PSM_LE_PSM_IPSP, CYBLE_L2CAP_PSM_LE_PSM_IPSP,
              CYBLE_L2CAP_MTU, CYBLE_L2CAP_MPS, LE_DATA_CREDITS_IPSP>>,
            "OK", st) >>

\* CyBle_L2capCbfcConnectReq: accepted when the link has no channel yet
L2capCbfcConnectReq(ch) ==
    IF ch = "closed" THEN [res |-> "OK", chan |-> "requested"]
    ELSE [res |-> "ERR", chan |-> ch]

\* CYBLE_EVT_GATT_CONNECT_IND: the link is up (the stack is connected)
EvtGattConnectInd ==
    /\ Dispatchable
    /\ cyBle_state = "CONNECTING"
    /\ cyBle_state' = "CONNECTED"
    /\ gapConnPending' = TRUE
    /\ LET req == GattConnectIndRequest("CONNECTED")
           r == L2capCbfcConnectReq(chan)
       IN  /\ calls' = [i \in DOMAIN req |-> [req[i] EXCEPT !.res = r.res]]
           /\ chan' = IF req # <<>> THEN r.chan ELSE chan
    /\ lastEvt' = "CYBLE_EVT_GATT_CONNECT_IND"
    /\ evtParam' = 0
    /\ NoReport
    /\ UNCHANGED <<chanApp, registry, sel, xfer, connIntv, cyBle_busyStatus,
                   scanSt, chanCid, chanMps, send_credits, rxCredits,
                   rxLowPending, inflight, power, hist, wprVars>>

\* CYBLE_EVT_GAP_ENCRYPT_CHANGE: its case has no break and falls through
\* to the GATT_CONNECT_IND case, which requests a channel again
EvtGapEncryptChange ==
    /\ Dispatchable
    /\ cyBle_state = "CONNECTED"
    /\ LET req == GattConnectIndRequest("CONNECTED")
           r == L2capCbfcConnectReq(chan)
       IN  /\ calls' = [i \in DOMAIN req |-> [req[i] EXCEPT !.res = r.res]]
           /\ chan' = IF req # <<>> THEN r.chan ELSE chan
    /\ lastEvt' = "CYBLE_EVT_GAP_ENCRYPT_CHANGE"
    /\ evtParam' = 0
    /\ NoReport
    /\ UNCHANGED <<chanApp, registry, sel, xfer, connIntv, cyBle_state,
                   cyBle_busyStatus, scanSt, gapConnPending, chanCid, chanMps,
                   send_credits, rxCredits, rxLowPending, inflight, power,
                   hist, wprVars>>

\* CYBLE_EVT_GAP_DEVICE_CONNECTED: connIntv = param->connIntv * 5u / 4u
EvtGapDeviceConnected(ci) ==
    /\ Dispatchable
    /\ cyBle_state = "CONNECTED"
    /\ gapConnPending
    /\ gapConnPending' = FALSE
    /\ connIntv' = ((ci * 5) \div 4) % Pow16
    /\ lastEvt' = "CYBLE_EVT_GAP_DEVICE_CONNECTED"
    /\ evtParam' = ci
    /\ calls' = <<>>
    /\ NoReport
    /\ UNCHANGED <<chanApp, registry, sel, xfer, cyBle_state,
                   cyBle_busyStatus, scanSt, ledger, power, hist, wprVars>>

\* the calls of the GAP_DEVICE_DISCONNECTED handler (lines 292-297): the
\* bug of waiting for a console command to scan again
DeviceDisconnectedCallsNone(st) == <<>>

\* the calls of the GAP_DEVICE_DISCONNECTED handler (lines 292-297)
DeviceDisconnectedCalls(st) ==
    << Call("CyBle_GapcStartScan", <<>>, GapcStartScan(st).res, st) >>

\* CYBLE_EVT_GAP_DEVICE_DISCONNECTED: the link is lost (the stack is
\* disconnected and the channel is gone with the link)
EvtGapDeviceDisconnected(reason) ==
    /\ Dispatchable
    /\ cyBle_state = "CONNECTED"
    /\ LET cs == DeviceDisconnectedCalls("DISCONNECTED")
           r == GapcStartScan("DISCONNECTED")
       IN  /\ calls' = cs
           /\ cyBle_state' = IF cs # <<>> THEN r.state ELSE "DISCONNECTED"
           /\ scanStartPending' = IF cs # <<>> THEN r.started ELSE FALSE
    /\ scanStopReq' = FALSE
    /\ gapConnPending' = FALSE
    /\ chan' = "closed"
    /\ chanCid' = 0
    /\ chanMps' = 0
    /\ send_credits' = 0
    /\ rxCredits' = 0
    /\ inflight' = <<>>
    /\ lastEvt' = "CYBLE_EVT_GAP_DEVICE_DISCONNECTED"
    /\ evtParam' = reason
    /\ NoReport
    /\ UNCHANGED <<chanApp, registry, sel, xfer, connIntv, cyBle_busyStatus,
                   rxLowPending, power, hist, wprVars>>

(***************************************************************************)
(* AppCallback: L2CAP events.                                              *)
(***************************************************************************)
\* confirmations a peer can answer a channel request with
ConnCnfParams ==
    { [lCid |-> l, response |-> 0, mtu |-> CYBLE_L2CAP_MTU, mps |-> PeerMps(l),
       credit |-> MaxCredits] :
      l \in Cids }
    \cup { [lCid |-> 0, response |-> r, mtu |-> 0, mps |-> 0, credit |-> 0] :
            r \in Responses \ {0} }

\* l2capConnected after CYBLE_EVT_L2CAP_CBFC_CONN_CNF (line 356): the
\* handler sets the flag whatever the response is
ConnCnfConnected(param) == TRUE

\* CYBLE_EVT_L2CAP_CBFC_CONN_CNF: the peer's answer to the channel request;
\* the stack opens the channel on a zero response only
EvtL2capCbfcConnCnf(param) ==
    /\ Dispatchable
    /\ cyBle_state = "CONNECTED"
    /\ chan = "requested"
    /\ l2capParameters' = param
    /\ l2capConnected' = ConnCnfConnected(param)
    /\ IF param.response = 0
       THEN /\ chan' = "open"
            /\ chanCid' = param.lCid
            /\ chanMps' = param.mps
            /\ send_credits' = param.credit
            /\ rxCredits' = LE_DATA_CREDITS_IPSP
       ELSE /\ chan' = "closed"
            /\ UNCHANGED <<chanCid, chanMps, send_credits, rxCredits>>
    /\ lastEvt' = "CYBLE_EVT_L2CAP_CBFC_CONN_CNF"
    /\ evtParam' = param.response
    /\ calls' = <<>>
    /\ NoReport
    /\ UNCHANGED <<registry, sel, xfer, connIntv, cyBle_state,
                   cyBle_busyStatus, scanSt, gapConnPending, rxLowPending,
                   inflight, power, hist, wprVars>>

\* CYBLE_EVT_L2CAP_CBFC_DISCONN_IND: the peer closed the channel
EvtL2capCbfcDisconnInd ==
    /\ Dispatchable
    /\ cyBle_state = "CONNECTED"
    /\ chan = "open"
    /\ l2capConnected' = FALSE
    /\ chan' = "closed"
    /\ chanCid' = 0
    /\ chanMps' = 0
    /\ send_credits' = 0
    /\ rxCredits' = 0
    /\ inflight' = <<>>
    /\ lastEvt' = "CYBLE_EVT_L2CAP_CBFC_DISCONN_IND"
    /\ evtParam' = chanCid
    /\ calls' = <<>>
    /\ NoReport
    /\ UNCHANGED <<l2capParameters, registry, sel, xfer, connIntv,
                   cyBle_state, cyBle_busyStatus, scanSt, gapConnPending,
                   rxLowPending, power, hist, wprVars>>

\* payloads the peer can deliver for the payload p it was sent: p itself,
\* or p with one bit of one word flipped
Bits == {1, 32768}

FlipBit(p, j, b) ==
    [p EXCEPT ![j] = IF (p[j] \div b) % 2 = 0 THEN p[j] + b ELSE p[j] - b]

Echoes(p) == {p} \cup { FlipBit(p, j, b) : j \in 1..MaxWords, b \in Bits }

\* what the peer can deliver next
Deliverable == IF inflight = <<>> THEN {} ELSE Echoes(Head(inflight))

\* the rxDataLength and result fields of a delivery (lines 367-370): a
\* whole payload or one that is a byte short, success (0) or an error; of
\* a short delivery rxData stands for the L2CAP_MAX_LEN bytes the
\* comparison reads, whatever lies past the delivered ones
RxLengths == {L2CAP_MAX_LEN - 1, L2CAP_MAX_LEN}
RxResults == {0, 1}

\* the DATA_READ handler's verdict (line 381): memcmp of the loopback
\* buffer and the delivered data over L2CAP_MAX_LEN bytes is 0
DataReadMatches(buffer, rxData) ==
    \A i \in 1..MaxWords : buffer[i] = rxData[i]

\* CYBLE_EVT_L2CAP_CBFC_DATA_READ: the peer delivers its answer to the
\* oldest payload in flight; the stack takes the credits of its fragments
\* and raises the low-mark indication when they fall to or below the mark
EvtL2capCbfcDataRead(rxData, rxDataLength, result) ==
    /\ Dispatchable
    /\ cyBle_state = "CONNECTED"
    /\ chan = "open"
    /\ inflight # <<>>
    /\ rxData \in Echoes(Head(inflight))
    /\ rxCredits >= CreditsFor(L2CAP_MAX_LEN, CYBLE_L2CAP_MPS)
    /\ inflight' = Tail(inflight)
    /\ rxCredits' = rxCredits - CreditsFor(L2CAP_MAX_LEN, CYBLE_L2CAP_MPS)
    /\ rxLowPending' = (rxCredits > LE_WATER_MARK_IPSP
                         /\ rxCredits' <= LE_WATER_MARK_IPSP)
    /\ nCross' = IF rxCredits > LE_WATER_MARK_IPSP
                    /\ rxCredits' <= LE_WATER_MARK_IPSP
                 THEN nCross + 1 ELSE nCross
    /\ IF DataReadMatches(ipv6LoopbackBuffer, rxData)
       THEN /\ custom_command' = "1"
            /\ calls' = <<>>
       ELSE /\ custom_command' = custom_command
            /\ calls' = <<Call("DBG_PRINTF", <<>>, "Wraparound failed",
                               cyBle_state)>>
    /\ lastEvt' = "CYBLE_EVT_L2CAP_CBFC_DATA_READ"
    /\ evtParam' = IF rxData = Head(inflight) THEN 0 ELSE 1
    /\ advReport' = ZeroReport
    /\ servicePresent' = 0
    /\ rxDataParam' = [result |-> result, rxDataLength |-> rxDataLength]
    /\ UNCHANGED <<chanApp, registry, sel, ipv6LoopbackBuffer, counter,
                   connIntv, cyBle_state, cyBle_busyStatus, scanSt,
                   gapConnPending, chan, chanCid, chanMps, send_credits,
                   power, nWrites, cSeen, nGrant, nC, nConnects, counted,
                   wprVars>>

\* the calls of the RX_CREDIT_IND handler (line 403) for the channel id
\* of the indication: the bug of granting in every indication and once more
RxCreditIndCallsTwice(lCid, st) ==
    << Call("CyBle_L2capCbfcSendFlowControlCredit",
            <<lCid, LE_DATA_CREDITS_IPSP>>, "OK", st),
       Call("CyBle_L2capCbfcSendFlowControlCredit",
            <<lCid, LE_DATA_CREDITS_IPSP>>, "OK", st) >>

\* the calls of the RX_CREDIT_IND handler (line 403): the bug of granting
\* the low mark instead of the initial credits
RxCreditIndCallsWaterMark(lCid, st) ==
    << Call("CyBle_L2capCbfcSendFlowControlCredit",
            <<lCid, LE_WATER_MARK_IPSP>>, "OK", st) >>

RxCreditIndCalls(lCid, st) ==
    << Call("CyBle_L2capCbfcSendFlowControlCredit",
            <<lCid, LE_DATA_CREDITS_IPSP>>, "OK", st) >>

\* results of an API call that the handler tests (lines 404-407)
ApiResults == {"OK", "ERR"}

\* CYBLE_EVT_L2CAP_CBFC_RX_CREDIT_IND: the receive credits reached the low
\* mark; each grant of the handler that the stack accepts (res) adds its
\* credits to the ledger, a refused one is only printed
EvtL2capCbfcRxCreditInd(res) ==
    /\ power = "run"
    /\ rxLowPending
    /\ LET cs == RxCreditIndCalls(chanCid, cyBle_state)
       IN  /\ calls' = [i \in DOMAIN cs |-> [cs[i] EXCEPT !.res = res]]
           /\ rxCredits' = IF res = "OK"
                           THEN rxCredits + Len(cs) * LE_DATA_CREDITS_IPSP
                           ELSE rxCredits
           /\ nGrant' = nGrant + Len(cs)
    /\ rxLowPending' = FALSE
    /\ lastEvt' = "CYBLE_EVT_L2CAP_CBFC_RX_CREDIT_IND"
    /\ evtParam' = rxCredits
    /\ NoReport
    /\ UNCHANGED <<chanApp, registry, sel, xfer, connIntv, cyBle_state,
                   cyBle_busyStatus, scanSt, gapConnPending, chan, chanCid,
                   chanMps, send_credits, inflight, power, nWrites, cSeen,
                   nCross, nC, nConnects, counted, wprVars>>

\* l2capParameters after CYBLE_EVT_L2CAP_CBFC_TX_CREDIT_IND (lines
\* 412-417): the bug of adding the granted credits to the stored copy
TxCreditIndParamsAdd(param, k) == [param EXCEPT !.credit = param.credit + k]

\* l2capParameters after CYBLE_EVT_L2CAP_CBFC_TX_CREDIT_IND (lines
\* 412-417): the handler prints the grant and stores nothing
TxCreditIndParams(param, k) == param

\* CYBLE_EVT_L2CAP_CBFC_TX_CREDIT_IND: the peer grants k send credits; the
\* handler only reports it
EvtL2capCbfcTxCreditInd(k) ==
    /\ Dispatchable
    /\ cyBle_state = "CONNECTED"
    /\ chan = "open"
    /\ send_credits + k <= MaxCredits
    /\ send_credits' = send_credits + k
    /\ l2capParameters' = TxCreditIndParams(l2capParameters, k)
    /\ lastEvt' = "CYBLE_EVT_L2CAP_CBFC_TX_CREDIT_IND"
    /\ evtParam' = k
    /\ calls' = <<>>
    /\ NoReport
    /\ UNCHANGED <<l2capConnected, registry, sel, xfer, connIntv, cyBle_state,
                   cyBle_busyStatus, scanSt, gapConnPending, chan, chanCid,
                   chanMps, rxCredits, rxLowPending, inflight, power, hist,
                   wprVars>>

\* CYBLE_EVT_STACK_BUSY_STATUS: the stack's queues filled up or drained
EvtStackBusyStatus ==
    /\ Dispatchable
    /\ cyBle_state = "CONNECTED"
    /\ chan = "open" \/ cyBle_busyStatus = 1
    /\ cyBle_busyStatus' = 1 - cyBle_busyStatus
    /\ lastEvt' = "CYBLE_EVT_STACK_BUSY_STATUS"
    /\ evtParam' = cyBle_busyStatus'
    /\ calls' = <<>>
    /\ NoReport
    /\ UNCHANGED <<chanApp, registry, sel, xfer, connIntv, cyBle_state,
                   scanSt, gapConnPending, ledger, power, hist, wprVars>>

\* CYBLE_EVT_TIMEOUT: a connection attempt timed out and the stack gave it
\* up; the handler only reports it
EvtTimeout ==
    /\ Dispatchable
    /\ cyBle_state = "CONNECTING"
    /\ cyBle_state' = "DISCONNECTED"
    /\ lastEvt' = "CYBLE_EVT_TIMEOUT"
    /\ evtParam' = 0
    /\ calls' = <<>>
    /\ NoReport
    /\ UNCHANGED <<chanApp, registry, sel, xfer, connIntv, cyBle_busyStatus,
                   scanSt, gapConnPending, ledger, power, hist, wprVars>>

(***************************************************************************)
(* main: one pass of the for(;;) loop that has a command to run.           *)
(***************************************************************************)
\* 'c': stop the scan and mark the connect as wanted
CmdConnect ==
    /\ calls' = <<Call("CyBle_GapcStopScan", <<>>,
                       IF cyBle_state = "SCANNING" THEN "OK" ELSE "ERR",
                       cyBle_state)>>
    /\ scanStopReq' = (scanStopReq \/ cyBle_state = "SCANNING")
    /\ state' = "STATE_CONNECTING"
    /\ cSeen' = TRUE
    /\ nC' = IF counted /\ nC < MaxCounted THEN nC + 1 ELSE nC
    /\ NoReport
    /\ UNCHANGED <<chanApp, registry, deviceN, ipv6LoopbackBuffer, counter,
                   connIntv, cyBle_state, cyBle_busyStatus, scanStartPending,
                   gapConnPending, ledger, power, nWrites, nCross, nGrant,
                   nConnects, counted, wprVars>>

\* 'v': cancel the connection attempt (the stack gives it up at once)
CmdCancel ==
    /\ calls' = <<Call("CyBle_GapcCancelDeviceConnection", <<>>,
                       IF cyBle_state = "CONNECTING" THEN "OK" ELSE "ERR",
                       cyBle_state)>>
    /\ cyBle_state' = IF cyBle_state = "CONNECTING" THEN "DISCONNECTED"
                      ELSE cyBle_state
    /\ NoReport
    /\ UNCHANGED <<chanApp, registry, sel, ipv6LoopbackBuffer, counter,
                   connIntv, cyBle_busyStatus, scanSt, gapConnPending, ledger,
                   power, hist, wprVars>>

\* 'd' and 's': disconnect request, GATT discovery; both only ask the stack
CmdAsk(api) ==
    /\ calls' = <<Call(api, <<>>,
                       IF cyBle_state = "CONNECTED" THEN "OK" ELSE "ERR",
                       cyBle_state)>>
    /\ NoReport
    /\ UNCHANGED <<chanApp, registry, sel, ipv6LoopbackBuffer, counter,
                   connIntv, cyBle_state, cyBle_busyStatus, scanSt,
                   gapConnPending, ledger, power, hist, wprVars>>

\* 'z' and the character after it: select the peer by its digit
CmdSelect(ch2) ==
    /\ deviceN' = IF DigitVal(ch2) >= 0 THEN DigitVal(ch2) ELSE deviceN
    /\ calls' = <<>>
    /\ NoReport
    /\ UNCHANGED <<chanApp, registry, state, ipv6LoopbackBuffer, counter,
                   connIntv, cyBle_state, cyBle_busyStatus, scanSt,
                   gapConnPending, ledger, power, hist, wprVars>>

\* the payload '1' generates from the counter (lines 716-722)
Payload(c) == [i \in 1..MaxWords |-> (c + i - 1) % Pow16]

\* the counter after one payload (counter++ per word, lines 706, 718):
\* the bug of a counter wider than 16 bits
NextCounterNoWrap(c) == c + MaxWords

\* the counter after one payload (counter++ per word of a uint16)
NextCounter(c) == (c + MaxWords) % Pow16

\* '1' commands after which the counter is back at 0, and the commands
\* around that point that a run is followed through
GenWrap == Pow16 \div MaxWords
GenFirst == GenWrap - GenSpan
GenLast == GenWrap + GenSpan

\* the '1' commands a run is followed through: its first MaxWrites, and
\* those around the wrap of the counter
WriteBudget(n) == n < MaxWrites \/ (GenFirst <= n /\ n < GenLast)

\* '1': fill the loopback buffer from the counter, then write it
CmdWrite ==
    /\ WriteBudget(nWrites)
    /\ nWrites' = nWrites + 1
    /\ ipv6LoopbackBuffer' = Payload(counter)
    /\ counter' = NextCounter(counter)
    /\ LET w == L2capChannelDataWrite(
                    cyBle_state = "CONNECTED" /\ chan = "open",
                    l2capParameters.lCid, L2CAP_MAX_LEN, chanMps,
                    send_credits)
       IN  /\ send_credits' = w.credits
           /\ inflight' = IF w.sent
                          THEN Append(inflight, ipv6LoopbackBuffer')
                          ELSE inflight
           /\ calls' = <<Call("CyBle_L2capChannelDataWrite",
                              <<l2capParameters.lCid, L2CAP_MAX_LEN>>,
                              w.res, cyBle_state)>>
    /\ NoReport
    /\ UNCHANGED <<chanApp, registry, sel, connIntv, cyBle_state,
                   cyBle_busyStatus, scanSt, gapConnPending, chan, chanCid,
                   chanMps, rxCredits, rxLowPending, power, cSeen, nCross,
                   nGrant, nC, nConnects, counted, wprVars>>

\* 'h' and the characters the switch has no case for
CmdNone ==
    /\ calls' = <<>>
    /\ NoReport
    /\ UNCHANGED <<chanApp, registry, sel, ipv6LoopbackBuffer, counter,
                   connIntv, cyBle_state, cyBle_busyStatus, scanSt,
                   gapConnPending, ledger, power, hist, wprVars>>

\* the command a pass runs (lines 655-661): the armed command, when there
\* is one, replaces the console character
PassCommand(ch) == IF custom_command # "" THEN custom_command ELSE ch

\* whether a pass has a command to run (line 655)
PassRuns(ch) ==
    ch # "" \/ (custom_command # "" /\ cyBle_busyStatus = 0)

MainLoop(ch, ch2) ==
    /\ Dispatchable
    /\ PassRuns(ch)
    /\ custom_command' = ""
    /\ evtParam' = IF custom_command # "" THEN 1 ELSE 0
    /\ LET cmd == PassCommand(ch)
       IN  /\ lastEvt' = cmd
           /\ CASE cmd = "c" -> CmdConnect
                [] cmd = "v" -> CmdCancel
                [] cmd = "d" -> CmdAsk("CyBle_GapDisconnect")
                [] cmd = "s" -> CmdAsk("CyBle_GattcStartDiscovery")
                [] cmd = "z" -> CmdSelect(ch2)
                [] cmd = "1" -> CmdWrite
                [] OTHER -> CmdNone

(***************************************************************************)
(* The filter alone, on every buffer of BufLen bytes and every dataLen.    *)
(***************************************************************************)
InitAdv ==
    /\ InitApp /\ InitStack /\ InitObs /\ counted = FALSE /\ InitWprApp
    /\ \E d \in Buffers, n \in 0..BufLen :
          advReport = [peerBdAddr |-> 1, peerAddrType |-> 0, data |-> d,
                       dataLen |-> n]

ApplyCheckAdv ==
    /\ lastEvt = "none"
    /\ servicePresent' \in CheckAdvPacketForServiceUuid(advReport,
                              CYBLE_UUID_INTERNET_PROTOCOL_SUPPORT_SERVICE)
    /\ lastEvt' = "CheckAdvPacketForServiceUuid"
    /\ UNCHANGED <<chanApp, registry, sel, xfer, connIntv, cyBle_state,
                   cyBle_busyStatus, scanSt, gapConnPending, ledger, power,
                   advReport, rxDataParam, evtParam, calls, hist, wprVars>>

NextAdv == ApplyCheckAdv

SpecAdv == InitAdv /\ [][NextAdv]_vars

\* payload generation alone: '1' typed again and again, from the start of
\* the program and from the states it is in after GenFirst..GenLast - 1
\* commands (no link is needed: the payload is generated before the write
\* and whatever the write returns)
GenStarts == {0} \cup (GenFirst..(GenLast - 1))

InitGen ==
    /\ InitStack /\ advReport = ZeroReport /\ counted = FALSE /\ InitWprApp
    /\ servicePresent = 0
    /\ rxDataParam = ZeroRxParam
    /\ lastEvt = "none"
    /\ evtParam = 0
    /\ calls = <<>>
    /\ cSeen = FALSE
    /\ nCross = 0
    /\ nGrant = 0
    /\ nC = 0
    /\ nConnects = 0
    /\ l2capConnected = FALSE
    /\ l2capParameters = ZeroParams
    /\ peerAddr = [i \in 0..(CYBLE_MAX_ADV_DEVICES - 1) |->
                      [bdAddr |-> 0, type |-> 0]]
    /\ advDevices = 0
    /\ deviceN = 0
    /\ state = "STATE_INIT"
    /\ custom_command = ""
    /\ connIntv = 0
    /\ \E k \in GenStarts :
          /\ nWrites = k
          /\ counter = (k * MaxWords) % Pow16
          /\ ipv6LoopbackBuffer =
                 IF k = 0 THEN [i \in 1..MaxWords |-> 0]
                 ELSE Payload(((k - 1) * MaxWords) % Pow16)

NextGen == MainLoop("1", "")

SpecGen == InitGen /\ [][NextGen]_vars

\* the discovery phase alone: every report, every digit, up to the connect
\* attempt and its end
ScanChars == {"c", "v", "z"}

NextScan ==
    \/ EvtStackOn
    \/ \E rep \in ScanReports : EvtScanProgressResult(rep)
    \/ \E stop \in BOOLEAN : EvtScanStartStop(stop)
    \/ EvtTimeout
    \/ \E ch \in ScanChars :
          \E ch2 \in (IF ch = "z" THEN Digits ELSE {""}) :
             MainLoop(ch, ch2)

SpecScan == Init /\ [][NextScan]_vars

\* the whole life of the link, with one peer that advertises the service
\* and one that does not
LinkReports ==
    { r \in ScanReports :
        \/ r.peerBdAddr = 1 /\ r.peerAddrType = 0 /\ r.data = <<3, 3, 32, 24>>
        \/ r.peerBdAddr = 2 /\ r.peerAddrType = 1 /\ r.data = <<3, 3, 24, 32>> }

\* the peer is selected during discovery
LinkChars == Chars \ {"z"}

Next ==
    \/ EvtStackOn
    \/ \E rep \in LinkReports : EvtScanProgressResult(rep)
    \/ \E stop \in BOOLEAN : EvtScanStartStop(stop)
    \/ EvtGattConnectInd
    \/ EvtGapEncryptChange
    \/ \E ci \in ConnIntvs : EvtGapDeviceConnected(ci)
    \/ \E reason \in Reasons : EvtGapDeviceDisconnected(reason)
    \/ \E param \in ConnCnfParams : EvtL2capCbfcConnCnf(param)
    \/ EvtL2capCbfcDisconnInd
    \/ \E rxData \in Deliverable, len \in RxLengths, result \in RxResults :
          EvtL2capCbfcDataRead(rxData, len, result)
    \/ \E res \in ApiResults : EvtL2capCbfcRxCreditInd(res)
    \/ \E k \in 1..MaxCredits : EvtL2capCbfcTxCreditInd(k)
    \/ EvtStackBusyStatus
    \/ EvtTimeout
    \/ \E ch \in LinkChars \cup {""} : MainLoop(ch, "")

Spec == Init /\ [][Next]_vars

\* main never leaves its for(;;) loop (line 647): as long as an event is
\* pending or a pass has a command to run, one of them is taken
SpecFair == Spec /\ WF_vars(Next)

\* the whole life of the link, with the 'c' commands and the connect
\* attempts of the run counted
SpecCounted == InitCounted /\ [][Next]_vars

(***************************************************************************)
(* BLE Wireless Power Receiver (BLE_Wireless_Power_Receiver.cydsn/main.c): *)
(* its event callback (AppCallback), the WDT interrupt (Timer_Interrupt)   *)
(* and the polling loop of main, one step per statement that reads or      *)
(* writes mainTimer, so that the interrupt can fall between any two.       *)
(***************************************************************************)
\* the most ticks the model lets stand in mainTimer (a uint32 in the code)
MaxTicks == 2

\* bit 6 of the Enables field of PRU Control: enable the charge indicator
PRU_CONTROL_ENABLES_ENABLE_CHARGE_INDICATOR == 64

\* the Enables values a charger writes: charge-indicator and output bits
PruEnables == {0, 64, 128, 192}

\* (x & mask) != 0, for a mask of one bit
BitSet(x, mask) == (x \div mask) % 2 = 1

\* everything of the router, which the receiver does not have
routerVars == <<chanApp, registry, sel, xfer, connIntv, cyBle_busyStatus,
                scanSt, gapConnPending, ledger, hist>>

\* CyBle_GappStartAdvertisement: accepted when nothing is active
GappStartAdvertisement(st) ==
    IF st = "DISCONNECTED"
    THEN [res |-> "OK", state |-> "ADVERTISING", started |-> TRUE]
    ELSE [res |-> "ERR", state |-> st, started |-> FALSE]

\* the dispatch points of main: CyBle_ProcessEvents at the head of the loop
\* (line 480) and, in a build with BAS_SIMULATE_ENABLE or BAS_MEASURE_ENABLE,
\* the ones inside the pass (lines 500, 504), before MeasureWirelessParam
WprDispatchable ==
    power = "run" /\ mainPc \in {"CyBle_ProcessEvents", "MeasureWirelessParam"}

\* CYBLE_EVT_STACK_ON (lines 61-77): start fast advertising
WprEvtStackOn ==
    /\ WprDispatchable
    /\ cyBle_state = "INITIALIZING"
    /\ LET r == GappStartAdvertisement("DISCONNECTED")
       IN  /\ cyBle_state' = r.state
           /\ advStartPending' = r.started
           /\ calls' = << Call("CyBle_GappStartAdvertisement", <<>>, r.res,
                               "DISCONNECTED") >>
    /\ lastEvt' = "CYBLE_EVT_STACK_ON"
    /\ evtParam' = 0
    /\ NoReport
    /\ UNCHANGED <<routerVars, power, pruControl, mainTimer, mainPc,
                   tickOwed>>

\* what the handler of ADVERTISEMENT_START_STOP does, by the stack's state
\* and pruControl.enables: the mistake of hibernating whatever the bit is
AdvStartStopActionIgnoreBit(st, enables) ==
    IF st = "DISCONNECTED" THEN "hibernate" ELSE "none"

\* lines 115-140: with the stack disconnected, hibernate when the charge
\* indicator bit is clear, else start fast advertising again
AdvStartStopAction(st, enables) ==
    IF st = "DISCONNECTED"
    THEN IF ~BitSet(enables, PRU_CONTROL_ENABLES_ENABLE_CHARGE_INDICATOR)
         THEN "hibernate"
         ELSE "advertise"
    ELSE "none"

\* CYBLE_EVT_GAPP_ADVERTISEMENT_START_STOP, advertising has started: the
\* stack's state is ADVERTISING and the handler does nothing
WprEvtAdvertisementStarted ==
    /\ WprDispatchable
    /\ cyBle_state = "ADVERTISING"
    /\ advStartPending
    /\ advStartPending' = FALSE
    /\ LET act == AdvStartStopAction(cyBle_state, pruControl.enables)
       IN  /\ act = "none"
           /\ calls' = <<>>
    /\ lastEvt' = "CYBLE_EVT_GAPP_ADVERTISEMENT_START_STOP"
    /\ evtParam' = 0
    /\ NoReport
    /\ UNCHANGED <<routerVars, cyBle_state, power, pruControl, mainTimer,
                   mainPc, tickOwed>>

\* CYBLE_EVT_GAPP_ADVERTISEMENT_START_STOP, the fast advertising period is
\* over: the stack is disconnected when it dispatches the event
WprEvtAdvertisementStopped ==
    /\ WprDispatchable
    /\ cyBle_state = "ADVERTISING"
    /\ ~advStartPending
    /\ LET st  == "DISCONNECTED"
           act == AdvStartStopAction(st, pruControl.enables)
           r   == GappStartAdvertisement(st)
       IN  /\ cyBle_state' = IF act = "advertise" THEN r.state ELSE st
           /\ advStartPending' = (act = "advertise" /\ r.started)
           /\ power' = IF act = "hibernate" THEN "hibernate" ELSE power
           /\ calls' =
                IF act = "hibernate"
                THEN << Call("CySysPmHibernate", <<>>, "OK", st) >>
                ELSE IF act = "advertise"
                THEN << Call("CyBle_GappStartAdvertisement", <<>>, r.res,
                             st) >>
                ELSE <<>>
    /\ lastEvt' = "CYBLE_EVT_GAPP_ADVERTISEMENT_START_STOP"
    /\ evtParam' = 1
    /\ NoReport
    /\ UNCHANGED <<routerVars, pruControl, mainTimer, mainPc, tickOwed>>

\* CYBLE_EVT_GAP_DEVICE_CONNECTED (lines 142-152): a charger has connected
WprEvtGapDeviceConnected ==
    /\ WprDispatchable
    /\ cyBle_state = "ADVERTISING"
    /\ ~advStartPending
    /\ cyBle_state' = "CONNECTED"
    /\ lastEvt' = "CYBLE_EVT_GAP_DEVICE_CONNECTED"
    /\ evtParam' = 0
    /\ calls' = <<>>
    /\ NoReport
    /\ UNCHANGED <<routerVars, power, wprVars>>

\* the calls of the disconnect handler: the mistake of leaving the
\* advertising to somebody else
WprDisconnectedCallsNone(st) == <<>>

\* lines 153-161: start fast advertising, whatever the stack answers
WprDisconnectedCalls(st) ==
    << Call("CyBle_GappStartAdvertisement", <<>>,
            GappStartAdvertisement(st).res, st) >>

\* CYBLE_EVT_GAP_DEVICE_DISCONNECTED: the link is lost
WprEvtGapDeviceDisconnected ==
    /\ WprDispatchable
    /\ cyBle_state = "CONNECTED"
    /\ LET st == "DISCONNECTED"
           cs == WprDisconnectedCalls(st)
           r  == GappStartAdvertisement(st)
       IN  /\ calls' = cs
           /\ cyBle_state' = IF cs # <<>> THEN r.state ELSE st
           /\ advStartPending' = (cs # <<>> /\ r.started)
    /\ lastEvt' = "CYBLE_EVT_GAP_DEVICE_DISCONNECTED"
    /\ evtParam' = 0
    /\ NoReport
    /\ UNCHANGED <<routerVars, power, pruControl, mainTimer, mainPc,
                   tickOwed>>

\* the charger writes PRU Control: the service callback stores the value in
\* pruControl, which AppCallback reads at line 117
WprEvtPruControlWrite(enables) ==
    /\ WprDispatchable
    /\ cyBle_state = "CONNECTED"
    /\ pruControl' = [enables |-> enables]
    /\ lastEvt' = "CYBLE_EVT_WPTSS_WRITE_CHAR"
    /\ evtParam' = enables
    /\ calls' = <<>>
    /\ NoReport
    /\ UNCHANGED <<routerVars, cyBle_state, power, mainTimer, mainPc,
                   advStartPending, tickOwed>>

\* Timer_Interrupt (lines 228-259): mainTimer++, between any two steps of
\* main and of the callback it runs
Timer_Interrupt ==
    /\ power = "run"
    /\ mainTimer < MaxTicks
    /\ mainTimer' = mainTimer + 1
    /\ tickOwed' = TRUE
    /\ lastEvt' = "Timer_Interrupt"
    /\ evtParam' = 0
    /\ calls' = <<>>
    /\ NoReport
    /\ UNCHANGED <<routerVars, cyBle_state, power, pruControl, mainPc,
                   advStartPending>>

\* a step of main that only moves on
WprMainStep(evt, to) ==
    /\ mainPc' = to
    /\ lastEvt' = evt
    /\ evtParam' = 0
    /\ calls' = <<>>
    /\ NoReport
    /\ UNCHANGED <<routerVars, cyBle_state, power, pruControl,
                   advStartPending>>

\* line 480 and LowPowerImplementation (483): CyBle_ProcessEvents returns
WprMainProcessEvents ==
    /\ power = "run"
    /\ mainPc = "CyBle_ProcessEvents"
    /\ WprMainStep("CyBle_ProcessEvents", "CyBle_GetState")
    /\ UNCHANGED <<mainTimer, tickOwed>>

\* line 489: if(CyBle_GetState() == CYBLE_STATE_CONNECTED)
WprMainGetState ==
    /\ power = "run"
    /\ mainPc = "CyBle_GetState"
    /\ WprMainStep("CyBle_GetState",
                   IF cyBle_state = "CONNECTED" THEN "mainTimer != 0"
                   ELSE "CyBle_ProcessEvents")
    /\ UNCHANGED <<mainTimer, tickOwed>>

\* line 494: if(mainTimer != 0u)
WprMainTestTimer ==
    /\ power = "run"
    /\ mainPc = "mainTimer != 0"
    /\ WprMainStep("mainTimer != 0",
                   IF mainTimer # 0 THEN "mainTimer = 0"
                   ELSE "CyBle_ProcessEvents")
    /\ UNCHANGED <<mainTimer, tickOwed>>

\* line 496: mainTimer = 0u
WprMainClearTimer ==
    /\ power = "run"
    /\ mainPc = "mainTimer = 0"
    /\ WprMainStep("mainTimer = 0", "MeasureWirelessParam")
    /\ mainTimer' = 0
    /\ UNCHANGED tickOwed

\* lines 498-515: the measurements of the pass, MeasureWirelessParam last
WprMainMeasure ==
    /\ power = "run"
    /\ mainPc = "MeasureWirelessParam"
    /\ mainPc' = "CyBle_ProcessEvents"
    /\ lastEvt' = "MeasureWirelessParam"
    /\ evtParam' = 0
    /\ calls' = << Call("MeasureWirelessParam", <<>>, "OK", cyBle_state) >>
    /\ tickOwed' = FALSE
    /\ NoReport
    /\ UNCHANGED <<routerVars, cyBle_state, power, pruControl, mainTimer,
                   advStartPending>>

\* the user wakes the hibernating device (Wakeup_Interrupt, armed at lines
\* 127-129): it restarts from reset
WprWakeup ==
    /\ power = "hibernate"
    /\ power' = "run"
    /\ cyBle_state' = "INITIALIZING"
    /\ pruControl' = [enables |-> 0]
    /\ mainTimer' = 0
    /\ mainPc' = "CyBle_ProcessEvents"
    /\ advStartPending' = FALSE
    /\ tickOwed' = FALSE
    /\ lastEvt' = "Wakeup_Interrupt"
    /\ evtParam' = 0
    /\ calls' = <<>>
    /\ NoReport
    /\ UNCHANGED routerVars

NextWpr ==
    \/ WprEvtStackOn
    \/ WprEvtAdvertisementStarted
    \/ WprEvtAdvertisementStopped
    \/ WprEvtGapDeviceConnected
    \/ WprEvtGapDeviceDisconnected
    \/ \E enables \in PruEnables : WprEvtPruControlWrite(enables)
    \/ Timer_Interrupt
    \/ WprMainProcessEvents
    \/ WprMainGetState
    \/ WprMainTestTimer
    \/ WprMainClearTimer
    \/ WprMainMeasure
    \/ WprWakeup

SpecWpr == Init /\ [][NextWpr]_vars

\* the polling loop of main never stops while the device runs: a sleeping
\* CPU (LowPowerImplementation) is woken by the next interrupt
WprMain ==
    \/ WprMainProcessEvents
    \/ WprMainGetState
    \/ WprMainTestTimer
    \/ WprMainClearTimer
    \/ WprMainMeasure

SpecWprFair == SpecWpr /\ WF_vars(WprMain)

(***************************************************************************)
(* Claims.                                                                 *)
(***************************************************************************)
\* C1: after any sequence of scan results the registry entries
\* peerAddr[0..advDevices-1] hold pairwise different addresses and
\* advDevices never exceeds CYBLE_MAX_ADV_DEVICES.
C1_RegistryUniqueBounded ==
    /\ advDevices <= CYBLE_MAX_ADV_DEVICES
    /\ \A i, j \in 0..(advDevices - 1) :
          i # j => peerAddr[i].bdAddr # peerAddr[j].bdAddr

\* a full registry just saw again, under the other address type, the
\* address it registered first
C1_Witness ==
    /\ lastEvt = "CYBLE_EVT_GAPC_SCAN_PROGRESS_RESULT"
    /\ servicePresent = 1
    /\ advDevices = CYBLE_MAX_ADV_DEVICES
    /\ advDevices >= 2
    /\ advReport.peerBdAddr = peerAddr[0].bdAddr
    /\ advReport.peerAddrType # peerAddr[0].type

\* the fields of a payload: the offsets of their length bytes, read one
\* after the other until dataLen is used up
RECURSIVE FieldOffsets(_, _, _)
FieldOffsets(data, dataLen, a) ==
    IF a < dataLen /\ InBuf(data, a)
    THEN {a} \cup FieldOffsets(data, dataLen, a + Byte(data, a) + 1)
    ELSE {}

\* the field at offset a is a 16-bit UUID list holding uuid at an even
\* offset, both bytes inside the field's declared length
UuidInField(data, a, uuid) ==
    /\ InBuf(data, a + 1)
    /\ Byte(data, a + 1) \in {CYBLE_GAP_ADV_INCOMPL_16UUID,
                              CYBLE_GAP_ADV_COMPL_16UUID}
    /\ \E i \in 0..Len(data) :
          /\ i % 2 = 0
          /\ i + 3 <= Byte(data, a)
          /\ InBuf(data, a + 3 + i)
          /\ CyBle_Get16ByPtr(data, a + 2 + i) = uuid

\* C2: CheckAdvPacketForServiceUuid returns non-zero exactly when some
\* length-prefixed UUID-list field of the payload holds the target value
\* at a 2-byte-aligned offset inside the field's declared length.
C2_FilterIffUuidInField ==
    lastEvt = "CheckAdvPacketForServiceUuid" =>
        ((servicePresent # 0) <=>
            \E a \in FieldOffsets(advReport.data, advReport.dataLen, 0) :
                UuidInField(advReport.data, a,
                            CYBLE_UUID_INTERNET_PROTOCOL_SUPPORT_SERVICE))


\* the calls of the last step to one API
CallsTo(api) == { i \in DOMAIN calls : calls[i].api = api }

\* ceil(n / m), by its definition
Ceil(n, m) == CHOOSE k \in 0..n : k * m >= n /\ (k - 1) * m < n

\* the write of a '1' step is made on the open channel
WriteOnOpenChannel ==
    /\ cyBle_state = "CONNECTED"
    /\ chan = "open"
    /\ l2capParameters.lCid = chanCid

\* C3: at all times send_credits >= 0, and a '1' whose write needs more
\* credits than send_credits holds is refused, sends nothing and leaves
\* send_credits as it was.
C3_OverCreditWriteRefused ==
    /\ [](send_credits >= 0)
    /\ [][(lastEvt' = "1" /\ WriteOnOpenChannel
             /\ Ceil(L2CAP_MAX_LEN, chanMps) > send_credits)
          => /\ calls'[1].api = "CyBle_L2capChannelDataWrite"
             /\ calls'[1].res = "ERR"
             /\ inflight' = inflight
             /\ send_credits' = send_credits]_vars

\* a write that needed two credits was refused while one credit was left
C3_Witness ==
    /\ lastEvt = "1"
    /\ WriteOnOpenChannel
    /\ calls[1].res = "ERR"
    /\ send_credits > 0
    /\ Ceil(L2CAP_MAX_LEN, chanMps) > send_credits

\* C4: a receive-credit grant is issued exactly once for each crossing of
\* the low mark from above (no grant is owed between two dispatches, one
\* is owed while the indication of a crossing is still to be handled), and
\* only by the handler of an indication raised at or below the mark.
C4_OneGrantPerCrossing ==
    /\ nCross = nGrant + (IF rxLowPending THEN 1 ELSE 0)
    /\ CallsTo("CyBle_L2capCbfcSendFlowControlCredit") # {}
          => /\ lastEvt = "CYBLE_EVT_L2CAP_CBFC_RX_CREDIT_IND"
             /\ evtParam <= LE_WATER_MARK_IPSP
    /\ lastEvt = "CYBLE_EVT_L2CAP_CBFC_RX_CREDIT_IND"
          => Cardinality(CallsTo("CyBle_L2capCbfcSendFlowControlCredit")) = 1

\* the second crossing of a run was answered by the second grant, after a
\* payload that was read above the mark
C4_Witness ==
    /\ lastEvt = "CYBLE_EVT_L2CAP_CBFC_RX_CREDIT_IND"
    /\ nCross = 2
    /\ nGrant = 2
    /\ nWrites > nCross

\* C5: a payload written by '1' and delivered back unmodified is accepted
\* (the next send is armed and no failure is reported), and a delivered
\* payload with one bit flipped is reported as "Wraparound failed" and not
\* accepted.
C5_EchoRoundTrip ==
    lastEvt = "CYBLE_EVT_L2CAP_CBFC_DATA_READ" =>
        IF evtParam = 0
        THEN custom_command = "1" /\ calls = <<>>
        ELSE /\ Len(calls) = 1
             /\ calls[1].res = "Wraparound failed"

\* C6: after CYBLE_EVT_GAP_DEVICE_DISCONNECTED, for any reason code, the
\* handler has called CyBle_GapcStartScan with the stack disconnected and
\* the stack is scanning, with no console command in between.
C6_DisconnectRearmsScan ==
    lastEvt = "CYBLE_EVT_GAP_DEVICE_DISCONNECTED" =>
        /\ Len(calls) = 1
        /\ calls[1].api = "CyBle_GapcStartScan"
        /\ calls[1].st = "DISCONNECTED"
        /\ calls[1].res = "OK"
        /\ cyBle_state = "SCANNING"
        /\ scanStartPending

\* the link was lost on a connection timeout while the channel was open
\* and a payload was in flight
C6_Witness ==
    /\ lastEvt = "CYBLE_EVT_GAP_DEVICE_DISCONNECTED"
    /\ evtParam = 8
    /\ l2capConnected
    /\ nWrites > 0
    /\ cyBle_state = "SCANNING"

\* C7: on the open channel with fragments of m bytes and c send credits, a
\* write of n bytes with ceil(n/m) <= c succeeds and leaves c - ceil(n/m)
\* (m = 23, c = 5, n = 100 leaves 0), and with no credit left every write
\* is refused.
C7_CreditsPerFragment ==
    /\ [](5 - CreditsFor(100, 23) = 0 /\ CreditsFor(1, 23) = 1)
    /\ [][(lastEvt' = "1" /\ WriteOnOpenChannel)
          => IF Ceil(L2CAP_MAX_LEN, chanMps) <= send_credits
             THEN /\ calls'[1].res = "OK"
                  /\ send_credits' =
                        send_credits - Ceil(L2CAP_MAX_LEN, chanMps)
                  /\ inflight' = Append(inflight, ipv6LoopbackBuffer')
             ELSE /\ calls'[1].res = "ERR"
                  /\ send_credits' = send_credits]_vars

\* a write in two fragments took the last two credits
C7_Witness ==
    /\ lastEvt = "1"
    /\ WriteOnOpenChannel
    /\ calls[1].res = "OK"
    /\ Ceil(L2CAP_MAX_LEN, chanMps) = 2
    /\ send_credits = 0

\* C8: every CyBle_GapcConnectDevice call is made by the handler of a
\* CYBLE_EVT_GAPC_SCAN_START_STOP that reports the scan stopped, with the
\* stack disconnected, after a 'c' command.
C8_ConnectOnlyAfterScanStopped ==
    \A i \in CallsTo("CyBle_GapcConnectDevice") :
        /\ lastEvt = "CYBLE_EVT_GAPC_SCAN_START_STOP"
        /\ evtParam = 1
        /\ calls[i].st = "DISCONNECTED"
        /\ cSeen

\* the scan stopped after 'c' and the connect attempt was accepted
C8_Witness ==
    /\ lastEvt = "CYBLE_EVT_GAPC_SCAN_START_STOP"
    /\ CallsTo("CyBle_GapcConnectDevice") # {}
    /\ calls[1].res = "OK"
    /\ cyBle_state = "CONNECTING"

\* the request of a channel with the three local parameters
IsChannelRequest(c) ==
    /\ c.api = "CyBle_L2capCbfcConnectReq"
    /\ c.arg = <<CYBLE_L2CAP_PSM_LE_PSM_IPSP, CYBLE_L2CAP_PSM_LE_PSM_IPSP,
                 CYBLE_L2CAP_MTU, CYBLE_L2CAP_MPS, LE_DATA_CREDITS_IPSP>>

\* C9: every step in which the link becomes connected is the dispatch of
\* CYBLE_EVT_GATT_CONNECT_IND, whose handler itself requests a channel with
\* the local MTU, MPS and LE_DATA_CREDITS_IPSP.
C9_ChannelRequestedOnConnect ==
    [][(cyBle_state # "CONNECTED" /\ cyBle_state' = "CONNECTED")
       => /\ lastEvt' = "CYBLE_EVT_GATT_CONNECT_IND"
          /\ Len(calls') = 1
          /\ IsChannelRequest(calls'[1])
          /\ calls'[1].res = "OK"
          /\ chan' = "requested"]_vars

\* the link came up for the second time in a run and the channel was
\* requested again
C9_Witness ==
    /\ lastEvt = "CYBLE_EVT_GATT_CONNECT_IND"
    /\ IsChannelRequest(calls[1])
    /\ chan = "requested"
    /\ connIntv # 0

\* C10: after a CYBLE_EVT_L2CAP_CBFC_CONN_CNF that carries an error
\* response the channel is not marked open (l2capConnected is false).
C10_ErrorResponseLeavesChannelClosed ==
    (lastEvt = "CYBLE_EVT_L2CAP_CBFC_CONN_CNF" /\ evtParam # 0)
        => ~l2capConnected

\* C11: after CYBLE_EVT_GAP_DEVICE_DISCONNECTED or
\* CYBLE_EVT_L2CAP_CBFC_DISCONN_IND the channel is not marked open
\* (l2capConnected is false), and it stays so until the next
\* CYBLE_EVT_L2CAP_CBFC_CONN_CNF.
C11_ChannelDoesNotOutliveLink ==
    /\ [](lastEvt \in {"CYBLE_EVT_GAP_DEVICE_DISCONNECTED",
                       "CYBLE_EVT_L2CAP_CBFC_DISCONN_IND"}
            => ~l2capConnected)
    /\ [][(~l2capConnected /\ l2capConnected')
            => lastEvt' = "CYBLE_EVT_L2CAP_CBFC_CONN_CNF"]_vars

\* C12: at most one written payload is outstanding (sent and not yet
\* answered) at any time, and a '1' run while one is outstanding is refused
\* and sends nothing.
C12_SingleWriter ==
    /\ [](Len(inflight) <= 1)
    /\ [][(lastEvt' = "1" /\ inflight # <<>>)
            => /\ calls'[1].res = "ERR"
               /\ inflight' = inflight]_vars

\* C13: while a payload is outstanding ipv6LoopbackBuffer holds the last
\* payload transmitted, and every delivered payload is compared against
\* the payload whose echo it is (the oldest one outstanding).
C13_LoopbackRecordKept ==
    /\ [](inflight # <<>>
            => ipv6LoopbackBuffer = inflight[Len(inflight)])
    /\ [][lastEvt' = "CYBLE_EVT_L2CAP_CBFC_DATA_READ"
            => ipv6LoopbackBuffer = Head(inflight)]_vars

\* C14: the pass that runs an armed '1' (armed by a matching echo) finds no
\* payload outstanding and sends exactly one new payload, and the armed
\* command is used up by it.
C14_ClosedLoopOneInFlight ==
    [][(lastEvt' = "1" /\ evtParam' = 1)
         => /\ inflight = <<>>
            /\ calls'[1].res = "OK"
            /\ inflight' = <<ipv6LoopbackBuffer'>>
            /\ custom_command' = ""]_vars

\* the DATA_READ handler reported a validation failure in the last step
MismatchReported ==
    /\ lastEvt = "CYBLE_EVT_L2CAP_CBFC_DATA_READ"
    /\ Len(calls) = 1
    /\ calls[1].res = "Wraparound failed"

\* C15: after a delivered payload mismatched, the failure is reported and
\* the loop is halted: no next send is armed, so the next '1' that runs is
\* a console command and not one armed before the mismatch.
C15_MismatchHaltsLoop ==
    /\ [](MismatchReported => custom_command = "")
    /\ [][(MismatchReported /\ lastEvt' = "1") => evtParam' = 0]_vars

\* the last step was a '1' whose write was refused on the open channel
\* because no send credit was left
RefusedForNoCredit ==
    /\ lastEvt = "1"
    /\ WriteOnOpenChannel
    /\ send_credits = 0
    /\ calls[1].res = "ERR"

\* C16: a write refused for lack of send credits is queued: the
\* CYBLE_EVT_L2CAP_CBFC_TX_CREDIT_IND that grants the credits it needs
\* transmits its payload, with no console command.
C16_QueuedWriteSentOnGrant ==
    [][(RefusedForNoCredit
          /\ lastEvt' = "CYBLE_EVT_L2CAP_CBFC_TX_CREDIT_IND"
          /\ Ceil(L2CAP_MAX_LEN, chanMps) <= send_credits')
         => inflight' = Append(inflight, ipv6LoopbackBuffer)]_vars

\* C17: the channel is never left open with no receive credit: when the
\* count reaches zero without a grant having reached the peer, the channel
\* is terminated.
C17_ZeroReceiveCreditsTerminate ==
    ~(chan = "open" /\ l2capConnected /\ rxCredits = 0)

PayloadHoldsService(rep) ==
    \E a \in FieldOffsets(rep.data, rep.dataLen, 0) :
        UuidInField(rep.data, a,
                    CYBLE_UUID_INTERNET_PROTOCOL_SUPPORT_SERVICE)

\* C19: a CYBLE_EVT_GAPC_SCAN_PROGRESS_RESULT whose payload does not hold
\* the service UUID leaves peerAddr and advDevices unchanged.
C19_UnfilteredSightingNotRegistered ==
    [][(lastEvt' = "CYBLE_EVT_GAPC_SCAN_PROGRESS_RESULT"
          /\ ~PayloadHoldsService(advReport'))
         => (peerAddr' = peerAddr /\ advDevices' = advDevices)]_vars

\* C20: when a scan ends (CYBLE_EVT_GAPC_SCAN_START_STOP with the stack
\* disconnected) and no 'c' asked to stop that scan, the handler enters
\* Hibernate and issues no connect attempt.
C20_ScanEndWithoutRequestHibernates ==
    [][(lastEvt' = "CYBLE_EVT_GAPC_SCAN_START_STOP" /\ evtParam' = 1
          /\ ~scanStopReq)
         => /\ power' = "hibernate"
            /\ Len(calls') = 1
            /\ calls'[1].api = "CySysPmHibernate"]_vars

\* C21: registry entries are write-once and never evicted: in every step
\* the entries peerAddr[0..advDevices-1] (address and address type) keep
\* their values, advDevices does not decrease, and a step taken with
\* advDevices = CYBLE_MAX_ADV_DEVICES leaves the whole registry as it was.
C21_RegistryWriteOnce ==
    [][/\ \A i \in 0..(advDevices - 1) : peerAddr'[i] = peerAddr[i]
       /\ advDevices' >= advDevices
       /\ advDevices = CYBLE_MAX_ADV_DEVICES =>
             (peerAddr' = peerAddr /\ advDevices' = advDevices)]_vars

\* a full registry just saw an advertisement that passed the filter and
\* came from an address it does not hold
C21_Witness ==
    /\ lastEvt = "CYBLE_EVT_GAPC_SCAN_PROGRESS_RESULT"
    /\ servicePresent = 1
    /\ advDevices = CYBLE_MAX_ADV_DEVICES
    /\ \A i \in 0..(CYBLE_MAX_ADV_DEVICES - 1) :
          peerAddr[i].bdAddr # advReport.peerBdAddr

\* C22: each scan start begins from an empty working set: in every state
\* reached by a step that called CyBle_GapcStartScan (at stack-on and in
\* the restart after a disconnect) the registry holds no entry,
\* advDevices = 0.
C22_ScanStartsFromEmptyRegistry ==
    CallsTo("CyBle_GapcStartScan") # {} => advDevices = 0

ConnectAttemptFailed ==
    \/ lastEvt = "CYBLE_EVT_TIMEOUT"
    \/ /\ lastEvt = "v"
       /\ calls[1].api = "CyBle_GapcCancelDeviceConnection"
       /\ calls[1].res = "OK"

\* C24: a connect attempt that is cancelled by 'v' or that times out leads
\* back from Connecting to Scanning: after it the stack is eventually
\* scanning again.
C24_FailedConnectResumesScan ==
    [](ConnectAttemptFailed => <>(cyBle_state = "SCANNING"))

\* C25: every CYBLE_EVT_L2CAP_CBFC_RX_CREDIT_IND is answered in its own
\* dispatch by one call of CyBle_L2capCbfcSendFlowControlCredit for the
\* channel id of the indication with exactly LE_DATA_CREDITS_IPSP credits,
\* made while receive credits are still left (evtParam holds the receive
\* credits at the dispatch).
C25_LowMarkAnsweredByGrant ==
    lastEvt = "CYBLE_EVT_L2CAP_CBFC_RX_CREDIT_IND" =>
        /\ Len(calls) = 1
        /\ calls[1].api = "CyBle_L2capCbfcSendFlowControlCredit"
        /\ calls[1].arg = <<chanCid, LE_DATA_CREDITS_IPSP>>
        /\ chanCid \in Cids
        /\ evtParam > 0

\* the indication of the channel with id 65 was answered and the stack
\* accepted the grant: the receive credits are back above the low mark
C25_Witness ==
    /\ lastEvt = "CYBLE_EVT_L2CAP_CBFC_RX_CREDIT_IND"
    /\ chanCid = 65
    /\ calls[1].res = "OK"
    /\ rxCredits = evtParam + LE_DATA_CREDITS_IPSP
    /\ rxCredits > LE_WATER_MARK_IPSP

\* C26: payload generation is a 16-bit counter sequence continued across
\* payloads: with N = L2CAP_MAX_LEN / 2 words per payload, after the
\* payloads 0..k have been generated (nWrites = k + 1) the counter is
\* ((k + 1) * N) mod 2^16 and word i (from 0) of the loopback buffer is
\* (k * N + i) mod 2^16.
C26_PayloadCounterSequence ==
    /\ counter = (nWrites * MaxWords) % Pow16
    /\ lastEvt = "1" =>
          \A i \in 1..MaxWords :
             ipv6LoopbackBuffer[i] =
                ((nWrites - 1) * MaxWords + (i - 1)) % Pow16

\* the payload that ends on the word 65535 was just generated and the
\* counter is back at 0
C26_Witness ==
    /\ lastEvt = "1"
    /\ nWrites = GenWrap
    /\ ipv6LoopbackBuffer[MaxWords] = Pow16 - 1
    /\ counter = 0

\* C27: every connect attempt targets a populated registry entry: in
\* every state reached by a step that called CyBle_GapcConnectDevice, the
\* index it was called with (deviceN) is below advDevices and below
\* CYBLE_MAX_ADV_DEVICES.
C27_ConnectTargetsRegisteredPeer ==
    \A i \in CallsTo("CyBle_GapcConnectDevice") :
       /\ calls[i].arg[1] < advDevices
       /\ calls[i].arg[1] < CYBLE_MAX_ADV_DEVICES

\* C28: each connect attempt is backed by its own 'c' command: as long as
\* the 'c' commands are counted exactly (nC < MaxCounted), the number of
\* CyBle_GapcConnectDevice calls does not exceed the number of 'c'
\* commands received.
C28_ConnectsBackedByCommands ==
    nC < MaxCounted => nConnects <= nC

\* C29: a data write is issued only while the channel is open: in every
\* state reached by a step that called CyBle_L2capChannelDataWrite,
\* l2capConnected is true, the channel is open, and the channel id the
\* call was made with is the id of the open channel.
C29_WriteOnlyOnOpenChannel ==
    \A i \in CallsTo("CyBle_L2capChannelDataWrite") :
       /\ l2capConnected
       /\ chan = "open"
       /\ calls[i].arg[1] = chanCid

\* C30: an armed next send (custom_command = '1') is run only by a pass
\* that finds the stack not busy (cyBle_busyStatus = 0), and a step taken
\* while the stack is busy leaves the armed command pending.
C30_ArmedSendWaitsForIdleStack ==
    [][/\ (lastEvt' = "1" /\ evtParam' = 1) => cyBle_busyStatus = 0
       /\ (custom_command = "1" /\ cyBle_busyStatus = 1) =>
             custom_command' = "1"]_vars

\* C31: a rejected data write changes nothing: a '1' step whose
\* CyBle_L2capChannelDataWrite call returned an error leaves the loopback
\* buffer and the payload counter as they were before the command.
C31_RejectedWriteChangesNothing ==
    [][(/\ lastEvt' = "1"
        /\ CallsTo("CyBle_L2capChannelDataWrite")' # {}
        /\ calls'[1].res = "ERR") =>
          (ipv6LoopbackBuffer' = ipv6LoopbackBuffer /\ counter' = counter)]_vars

\* C32: a delivered payload is accepted as a match (the next send is
\* armed and no failure is reported) only if its rxDataLength is
\* L2CAP_MAX_LEN and its result is success (0).
C32_MatchNeedsFullLengthAndSuccess ==
    (/\ lastEvt = "CYBLE_EVT_L2CAP_CBFC_DATA_READ"
     /\ custom_command = "1"
     /\ calls = <<>>) =>
        /\ rxDataParam.rxDataLength = L2CAP_MAX_LEN
        /\ rxDataParam.result = 0

C34_LinkLossRestartsAdvertising ==
    lastEvt = "CYBLE_EVT_GAP_DEVICE_DISCONNECTED" =>
        /\ Len(calls) = 1
        /\ calls[1].api = "CyBle_GappStartAdvertisement"
        /\ calls[1].res = "OK"
        /\ cyBle_state = "ADVERTISING"
        /\ power = "run"

\* a charger had connected and written PRU Control, and the link is lost
C34_Witness ==
    /\ lastEvt = "CYBLE_EVT_GAP_DEVICE_DISCONNECTED"
    /\ pruControl.enables # 0
    /\ cyBle_state = "ADVERTISING"
    /\ CallsTo("CyBle_GappStartAdvertisement") # {}

\* every tick raised while the device stays connected is followed by a
\* call of MeasureWirelessParam that starts after the tick
C35_TickFollowedByPass ==
    (tickOwed /\ cyBle_state = "CONNECTED") ~>
        (~tickOwed \/ cyBle_state # "CONNECTED")

\* MeasureWirelessParam runs only when the device is connected and a tick
\* was raised since the call before it
C35_PassOnlyConnectedAfterTick ==
    [][lastEvt' = "MeasureWirelessParam" =>
          (cyBle_state = "CONNECTED" /\ tickOwed)]_vars

\* C35: in the power receiver no timer tick is lost under any interleaving
\* of Timer_Interrupt with the main loop: every tick raised while the device
\* stays connected is followed by a measurement pass (a call of
\* MeasureWirelessParam) that starts after the tick, and a measurement pass
\* runs only when the device is connected and at least one tick was raised
\* since the pass before it.
C35_NoTickLostNoIdlePass ==
    C35_TickFollowedByPass /\ C35_PassOnlyConnectedAfterTick

====
